---- MODULE Spec2Model ----
(***************************************************************************)
(* Model of src/src/main.rs (cpu_fingerprint): the two test-vector         *)
(* generators, the bit-exact fingerprint calculator and the multi-run      *)
(* consistency verifier of main().                                         *)
(*                                                                         *)
(* A 64-bit word (u64, and an f64 seen through to_bits) is a tuple of four *)
(* 16-bit limbs, most significant first, so that wrapping addition,        *)
(* rotation and exclusive-or keep their 64-bit width.                      *)
(***************************************************************************)
EXTENDS Integers, Sequences, FiniteSets, TLC

(***************************************************************************)
(* 64-bit words                                                            *)
(***************************************************************************)
\* one more than the largest 16-bit limb
Limb == 256 * 256

RECURSIVE XorBits(_, _, _)
XorBits(a, b, n) ==
    IF n = 0 THEN 0
    ELSE ((a + b) % 2) + 2 * XorBits(a \div 2, b \div 2, n - 1)

\* exclusive-or of two bytes, tabulated once: XorByte[i + 1][j + 1] = i ^ j
\* (SubSeq makes each row, and the table, an explicit tuple)
XorByte ==
    SubSeq([i \in 1..256 |->
               SubSeq([j \in 1..256 |-> XorBits(i - 1, j - 1, 8)], 1, 256)], 1, 256)

Xor16(a, b) ==
      XorByte[(a % 256) + 1][(b % 256) + 1]
    + 256 * XorByte[(a \div 256) + 1][(b \div 256) + 1]

\* u64 ^ u64
Xor64(a, b) == <<Xor16(a[1], b[1]), Xor16(a[2], b[2]), Xor16(a[3], b[3]), Xor16(a[4], b[4])>>

\* u64::wrapping_add
WrappingAdd(a, b) ==
    LET s4 == a[4] + b[4]
        s3 == a[3] + b[3] + (s4 \div Limb)
        s2 == a[2] + b[2] + (s3 \div Limb)
        s1 == a[1] + b[1] + (s2 \div Limb)
    IN  <<s1 % Limb, s2 % Limb, s3 % Limb, s4 % Limb>>

\* u64::rotate_left: whole limbs first, then the remaining r < 16 bits
RotateLeft(a, k) ==
    LET q  == k \div 16
        r  == k % 16
        l1 == a[(q % 4) + 1]
        l2 == a[((1 + q) % 4) + 1]
        l3 == a[((2 + q) % 4) + 1]
        l4 == a[((3 + q) % 4) + 1]
        up == 2 ^ r
        dn == 2 ^ (16 - r)
    IN  <<((l1 * up) % Limb) + (l2 \div dn), ((l2 * up) % Limb) + (l3 \div dn),
          ((l3 * up) % Limb) + (l4 \div dn), ((l4 * up) % Limb) + (l1 \div dn)>>

(***************************************************************************)
(* std::collections::hash_map::DefaultHasher: SipHash-1-3 with the key     *)
(* (0, 0).  A u64 is hashed as its 8 bytes, which the hasher reads back as *)
(* one little-endian 64-bit word, so every write is one whole block and    *)
(* the tail is empty when finish() runs.                                   *)
(***************************************************************************)
\* "somepseu", "dorandom", "lygenera", "tedbytes"
SipInit0 == <<29551, 28005, 28787, 25973>>

SipInit1 == <<25711, 29281, 28260, 28525>>

SipInit2 == <<27769, 26469, 28261, 29281>>

SipInit3 == <<29797, 25698, 31092, 25971>>

\* one SipRound (compress)
SipRound(s) ==
    LET a0 == WrappingAdd(s.v0, s.v1)
        a1 == Xor64(RotateLeft(s.v1, 13), a0)
        b0 == RotateLeft(a0, 32)
        a2 == WrappingAdd(s.v2, s.v3)
        a3 == Xor64(RotateLeft(s.v3, 16), a2)
        c0 == WrappingAdd(b0, a3)
        c3 == Xor64(RotateLeft(a3, 21), c0)
        c2 == WrappingAdd(a2, a1)
        c1 == Xor64(RotateLeft(a1, 17), c2)
    IN  [s EXCEPT !.v0 = c0, !.v1 = c1, !.v2 = RotateLeft(c2, 32), !.v3 = c3]

\* DefaultHasher::new()
DefaultHasherNew ==
    [v0 |-> SipInit0, v1 |-> SipInit1, v2 |-> SipInit2, v3 |-> SipInit3, length |-> 0]

\* bits.hash(&mut hasher): one 8-byte block, one compression round
HashU64(hasher, bits) ==
    LET s1 == SipRound([hasher EXCEPT !.v3 = Xor64(hasher.v3, bits)])
    IN  [s1 EXCEPT !.v0 = Xor64(s1.v0, bits), !.length = hasher.length + 8]

\* hasher.finish(): the length byte, one compression round, three finalization rounds
Finish(hasher) ==
    LET b  == <<(hasher.length % 256) * 256, 0, 0, 0>>
        s1 == SipRound([hasher EXCEPT !.v3 = Xor64(hasher.v3, b)])
        s2 == [s1 EXCEPT !.v0 = Xor64(s1.v0, b), !.v2 = Xor64(s1.v2, <<0, 0, 0, 255>>)]
        s3 == SipRound(SipRound(SipRound(s2)))
    IN  Xor64(Xor64(s3.v0, s3.v1), Xor64(s3.v2, s3.v3))

\* faulty variant: a conversion by value, -0.0 and +0.0 become one pattern
to_bits_by_value(val) == IF val = <<32768, 0, 0, 0>> THEN <<0, 0, 0, 0>> ELSE val

\* f64::to_bits: an f64 is held as its IEEE-754 bit pattern, which to_bits
\* hands over unchanged
to_bits(val) == val

HexDigit == <<"0", "1", "2", "3", "4", "5", "6", "7",
              "8", "9", "a", "b", "c", "d", "e", "f">>

Hex4(a) ==
    HexDigit[(a \div 4096) + 1] \o HexDigit[((a \div 256) % 16) + 1]
        \o HexDigit[((a \div 16) % 16) + 1] \o HexDigit[(a % 16) + 1]

\* format!("{:016x}", u64)
FormatHex016(w) == Hex4(w[1]) \o Hex4(w[2]) \o Hex4(w[3]) \o Hex4(w[4])

\* the loop "for val in results" over positions lo..hi, in order.  The range
\* is folded in two halves, left before right; the test on the left half's
\* byte count makes TLC finish the left half before it starts the right one.
RECURSIVE HashRange(_, _, _, _)
HashRange(hasher, vec, lo, hi) ==
    IF lo > hi THEN hasher
    ELSE IF lo = hi THEN HashU64(hasher, to_bits(vec[lo]))
    ELSE LET mid  == (lo + hi) \div 2
             left == HashRange(hasher, vec, lo, mid)
         IN  IF left.length >= 0
             THEN HashRange(left, vec, mid + 1, hi)
             ELSE left

\* the digest of a vector, as the function body computes it
Digest(vec) ==
    FormatHex016(Finish(HashRange(DefaultHasherNew, vec, 1, Len(vec))))

(***************************************************************************)
(* Program constants                                                       *)
(***************************************************************************)
CONSISTENCY_RUNS == 3

SAMPLE_SIZE == 1230

(***************************************************************************)
(* The floating-point unit and libm.  What sin, cos, atan, exp, sinh,      *)
(* cosh, log10, log2, tanh, hypot and the arithmetic on subnormals return  *)
(* depends on the machine; the model stands for it by an FPU variant v in  *)
(* Variants.  A computed f64 is held as a bit pattern that is a function   *)
(* of the variant and of the place in the generator's loops where it is    *)
(* computed, as it is in the code (the loops read nothing else); two       *)
(* variants differ in the last bit of every computed value.                *)
(***************************************************************************)
MaxVariant == 2

Variants == 1..MaxVariant

\* the six seeds of enhanced_denormal_test, as bit patterns:
\* 1e-308, 2e-308, 5e-308, 1e-307, 1e-320, 2.2250738585072014e-308
starting_values ==
    << <<7, 12502, 30745, 59602>>, <<14, 25004, 61491, 53668>>,
       <<33, 64024, 11328, 50701>>, <<49, 64024, 11328, 50701>>,
       <<0, 0, 0, 2024>>, <<16, 0, 0, 0>> >>

\* final_val of iteration i (from 0) for seed number s: x and y are iterated
\* i + 1 times from starting_values[s], combined and perturbed
DenormalFinalVal(v, s, i) == <<0, s, i, v - 1>>

\* faulty variant: the inner loop run over an inclusive range
DenormalInnerInclusive(v, s) ==
    [k \in 1..((SAMPLE_SIZE \div Len(starting_values)) + 1) |-> DenormalFinalVal(v, s, k - 1)]

\* the inner loop "for i in 0..SAMPLE_SIZE / starting_values.len()"
DenormalInner(v, s) ==
    [k \in 1..(SAMPLE_SIZE \div Len(starting_values)) |-> DenormalFinalVal(v, s, k - 1)]

\* the outer loop "for &start in starting_values.iter()", from seed s on
RECURSIVE DenormalOuter(_, _)
DenormalOuter(v, s) ==
    IF s > Len(starting_values) THEN <<>>
    ELSE DenormalInner(v, s) \o DenormalOuter(v, s + 1)

enhanced_denormal_test(v) == DenormalOuter(v, 1)

\* the 17 hard-coded inputs of transcendental_function_test, as bit patterns:
\* 0.0, 1e-15, PI/6, PI/4, PI/3, PI/2, PI, 3PI/2, 2PI, 1.0, -1.0, 0.5,
\* -0.534634634512312587, 1e-10, -1e-10, 1e15, -1e15
HardCodedInputs ==
    << <<0, 0, 0, 0>>, <<15570, 943, 40679, 22038>>, <<16352, 49490, 14381, 29541>>,
       <<16361, 8699, 21572, 11544>>, <<16368, 49490, 14381, 29541>>,
       <<16377, 8699, 21572, 11544>>, <<16393, 8699, 21572, 11544>>,
       <<16402, 55676, 32563, 8658>>, <<16409, 8699, 21572, 11544>>,
       <<16368, 0, 0, 0>>, <<49136, 0, 0, 0>>, <<16352, 0, 0, 0>>,
       <<49121, 7098, 6097, 16873>>, <<15835, 31967, 55767, 48571>>,
       <<48603, 31967, 55767, 48571>>, <<17164, 27637, 9780, 0>>,
       <<49932, 27637, 9780, 0>> >>

\* "for i in 0..500 { test_values.push(i as f64 * PI / 17.123...) }": the
\* input of index i is held as a pattern that is a function of i
EvenlySpaced(i) == <<16448, 0, 0, i>>

test_values == HardCodedInputs \o [k \in 1..500 |-> EvenlySpaced(k - 1)]

\* a value computed from the input number j by the libm calls of field f
TransVal(v, j, f) == <<16352 + f, 0, j, v - 1>>

\* the nine values pushed for the input number j, in the order of the pushes:
\* sin_val, cos_val, sin_of_sin, exp_of_cos, compound1, compound2, atan_val,
\* tanh_val, hypot - 1.0
TransPushes(v, j) ==
    <<TransVal(v, j, 1), TransVal(v, j, 2), TransVal(v, j, 3), TransVal(v, j, 4),
      TransVal(v, j, 5), TransVal(v, j, 6), TransVal(v, j, 7), TransVal(v, j, 8),
      TransVal(v, j, 9)>>

\* the loop "for &val in test_values.iter()" over the inputs lo..hi, in order
\* (the range is taken in two halves, left before right)
RECURSIVE TransLoop(_, _, _)
TransLoop(v, lo, hi) ==
    IF lo > hi THEN <<>>
    ELSE IF lo = hi THEN TransPushes(v, lo)
    ELSE TransLoop(v, lo, (lo + hi) \div 2) \o TransLoop(v, ((lo + hi) \div 2) + 1, hi)

transcendental_function_test(v) == TransLoop(v, 1, Len(test_values))

\* the test table of main()
test_names == <<"Enhanced Denormal Numbers Test", "Transcendental Function Test">>

\* what each generator returns under each FPU variant, and the digest of it,
\* computed once (SubSeq makes the table an explicit tuple)
KnownDenormal ==
    SubSeq([v \in 1..MaxVariant |-> enhanced_denormal_test(v)], 1, MaxVariant)

KnownDenormalDigest ==
    SubSeq([v \in 1..MaxVariant |-> Digest(KnownDenormal[v])], 1, MaxVariant)

KnownTranscendental ==
    SubSeq([v \in 1..MaxVariant |-> transcendental_function_test(v)], 1, MaxVariant)

KnownTranscendentalDigest ==
    SubSeq([v \in 1..MaxVariant |-> Digest(KnownTranscendental[v])], 1, MaxVariant)

\* results is hashed as Digest hashes it; the digest of a vector that a
\* generator returns is read from the tables instead of being computed again
calculate_fingerprint_full_precision(res) ==
    IF \E v \in Variants : res = KnownDenormal[v]
    THEN KnownDenormalDigest[CHOOSE v \in Variants : res = KnownDenormal[v]]
    ELSE IF \E v \in Variants : res = KnownTranscendental[v]
    THEN KnownTranscendentalDigest[CHOOSE v \in Variants : res = KnownTranscendental[v]]
    ELSE Digest(res)

(***************************************************************************)
(* The verifier: main()                                                    *)
(***************************************************************************)
VARIABLES
    pc,                 \* the place main() has reached
    panic_msg,          \* the message of the panic that ended main(), or ""
    table,              \* the array the outer loop iterates (test_names)
    test_idx,           \* the number of the TestCase of the outer loop, from 1
    run,                \* the loop variable of "for run in 1..=CONSISTENCY_RUNS"
    fingerprints,       \* the HashMap from fingerprint to count
    first_run_results,  \* the retained vector
    results,            \* the vector the last generator call returned
    preview_i,          \* the loop variable of the preview loop
    pending,            \* the keys fingerprints.iter() has yet to yield
    file,               \* what has been written to the report file
    console,            \* what has been printed
    fpu,                \* the FPU variant the generators compute with
    calls,              \* every generator and fingerprint call made so far
    vec1, vec2,         \* two vectors handed to the fingerprint calculator
    digest1, digest2,   \* and the fingerprints it returned
    fp_pc

vars == <<pc, panic_msg, table, test_idx, run, fingerprints, first_run_results,
          results, preview_i, pending, file, console, fpu, calls,
          vec1, vec2, digest1, digest2, fp_pc>>

mainVars == <<pc, panic_msg, table, test_idx, run, fingerprints, first_run_results,
              results, preview_i, pending, file, console, fpu, calls>>

fpVars == <<vec1, vec2, digest1, digest2, fp_pc>>

\* HashMap::new()
EmptyMap == [key \in {} |-> 0]

Line(kind, data) == [kind |-> kind, test |-> test_idx, data |-> data]

\* a panic unwinds main(): nothing after it runs
Panic(msg) ==
    /\ pc' = "panicked"
    /\ panic_msg' = msg

\* faulty variant: the generators read the loop counter, a mutable state
DispatchRunDependent(name, v) ==
    CASE name = "Enhanced Denormal Numbers Test" ->
            [ok |-> TRUE, results |-> enhanced_denormal_test(((v + run) % MaxVariant) + 1)]
      [] name = "Transcendental Function Test" ->
            [ok |-> TRUE, results |-> transcendental_function_test(((v + run) % MaxVariant) + 1)]
      [] OTHER -> [ok |-> FALSE, results |-> <<>>]

\* faulty variant: an unknown name is answered with an empty vector
DispatchLenient(name, v) ==
    CASE name = "Enhanced Denormal Numbers Test" ->
            [ok |-> TRUE, results |-> enhanced_denormal_test(v)]
      [] name = "Transcendental Function Test" ->
            [ok |-> TRUE, results |-> transcendental_function_test(v)]
      [] OTHER -> [ok |-> TRUE, results |-> <<>>]

\* "match name { ... }": the generator of a test name, or the panic arm
Dispatch(name, v) ==
    CASE name = "Enhanced Denormal Numbers Test" ->
            [ok |-> TRUE, results |-> enhanced_denormal_test(v)]
      [] name = "Transcendental Function Test" ->
            [ok |-> TRUE, results |-> transcendental_function_test(v)]
      [] OTHER -> [ok |-> FALSE, results |-> <<>>]

\* faulty variant: a fingerprint is recorded once and never counted again
TallyOnce(map, fp) == IF fp \in DOMAIN map THEN map ELSE map @@ (fp :> 1)

\* "*fingerprints.entry(fingerprint.clone()).or_insert(0) += 1"
Tally(map, fp) ==
    IF fp \in DOMAIN map THEN [map EXCEPT ![fp] = @ + 1]
    ELSE map @@ (fp :> 0 + 1)

\* faulty variant: the majority fingerprint is called consistent
ConsistencyStatusMajority(count) ==
    IF 2 * count > CONSISTENCY_RUNS THEN "CONSISTENT" ELSE "INCONSISTENT"

\* "if *count == CONSISTENCY_RUNS { "CONSISTENT" } else { "INCONSISTENT" }"
ConsistencyStatus(count) ==
    IF count = CONSISTENCY_RUNS THEN "CONSISTENT" ELSE "INCONSISTENT"

\* faulty variant: the percentage is cut off after the first decimal
PercentTenthsTruncated(count) == (count * 1000) \div CONSISTENCY_RUNS

\* (count / CONSISTENCY_RUNS) * 100.0 in tenths of a percent, rounded to the
\* nearest tenth, a tie to the even tenth, as "{:.1}" rounds it
PercentTenths(count) ==
    LET num == count * 1000
        q   == num \div CONSISTENCY_RUNS
        r2  == 2 * (num % CONSISTENCY_RUNS)
    IN  IF r2 > CONSISTENCY_RUNS \/ (r2 = CONSISTENCY_RUNS /\ q % 2 = 1)
        THEN q + 1 ELSE q

\* format!("{:.1}", consistency_percentage)
FormatPercent(count) ==
    ToString(PercentTenths(count) \div 10) \o "." \o ToString(PercentTenths(count) % 10)

\* faulty variant: the run loop goes round once more
RunsLeftInclusive(r) == r <= CONSISTENCY_RUNS

\* the loop condition of "for run in 1..=CONSISTENCY_RUNS", r runs being over
RunsLeft(r) == r < CONSISTENCY_RUNS

\* faulty variant: the retained vector is overwritten after every run
RetainedLast(r, fresh, kept) == fresh

\* "if run == 1 { first_run_results = results.clone(); }": the retained vector
\* after run number r returned fresh, kept being the one retained before
Retained(r, fresh, kept) == IF r = 1 THEN fresh ELSE kept

\* min(10, first_run_results.len())
PreviewLen == IF Len(first_run_results) < 10 THEN Len(first_run_results) ELSE 10

InitMain(tbl) ==
    /\ pc = "create"
    /\ panic_msg = ""
    /\ table = tbl
    /\ test_idx = 0
    /\ run = 0
    /\ fingerprints = EmptyMap
    /\ first_run_results = <<>>
    /\ results = <<>>
    /\ preview_i = 0
    /\ pending = {}
    /\ file = <<>>
    /\ console = <<>>
    /\ fpu \in Variants
    /\ calls = <<>>

FpIdle ==
    /\ vec1 = <<>>
    /\ vec2 = <<>>
    /\ digest1 = ""
    /\ digest2 = ""
    /\ fp_pc = "idle"

Init == InitMain(test_names) /\ FpIdle

\* File::create(&filename).expect("Could not create output file")
CreateFile ==
    /\ pc = "create"
    /\ \E ok \in BOOLEAN :
          IF ok THEN pc' = "sysinfo" /\ panic_msg' = panic_msg
          ELSE Panic("Could not create output file")
    /\ UNCHANGED <<table, test_idx, run, fingerprints, first_run_results, results,
                   preview_i, pending, file, console, fpu, calls>>
    /\ UNCHANGED fpVars

\* file.write_all(sys_info.as_bytes()).expect("Bruh nah")
WriteSysInfo ==
    /\ pc = "sysinfo"
    /\ \E ok \in BOOLEAN :
          IF ok THEN /\ file' = Append(file, Line("sysinfo", <<>>))
                     /\ pc' = "tests"
                     /\ panic_msg' = panic_msg
          ELSE Panic("Bruh nah") /\ file' = file
    /\ UNCHANGED <<table, test_idx, run, fingerprints, first_run_results, results,
                   preview_i, pending, console, fpu, calls>>
    /\ UNCHANGED fpVars

\* the head of "for &name in test_names.iter()": the name is printed and
\* written, the map and the retained vector are made anew
BeginTest ==
    /\ pc = "tests"
    /\ test_idx < Len(table)
    /\ test_idx' = test_idx + 1
    /\ console' = Append(console, [kind |-> "running", test |-> test_idx + 1, data |-> <<>>])
    /\ \E ok \in BOOLEAN :
          IF ok THEN /\ file' = Append(file, [kind |-> "name", test |-> test_idx + 1,
                                              data |-> <<table[test_idx + 1]>>])
                     /\ fingerprints' = EmptyMap
                     /\ first_run_results' = <<>>
                     /\ run' = 0
                     /\ pc' = "run"
                     /\ panic_msg' = panic_msg
          ELSE /\ Panic("Not happening")
               /\ UNCHANGED <<file, fingerprints, first_run_results, run>>
    /\ UNCHANGED <<table, results, preview_i, pending, fpu, calls>>
    /\ UNCHANGED fpVars

\* one iteration of "for run in 1..=CONSISTENCY_RUNS", the generator
\* computing with the FPU variant v; got is what the match returns and fp the
\* fingerprint of it, each computed once
RunTest(v) ==
    /\ pc = "run"
    /\ RunsLeft(run)
    /\ run' = run + 1
    /\ fpu' = v
    /\ \E got \in {Dispatch(table[test_idx], v)} :
          IF got.ok
          THEN \E fp \in {calculate_fingerprint_full_precision(got.results)} :
                /\ results' = got.results
                /\ first_run_results' = Retained(run + 1, got.results, first_run_results)
                /\ fingerprints' = Tally(fingerprints, fp)
                /\ console' = console \o
                      <<Line("run", <<run + 1>>), Line("fingerprint", <<fp>>)>>
                /\ calls' = calls \o
                      << [op |-> "generate", test |-> test_idx, run |-> run + 1, fpu |-> v],
                         [op |-> "fingerprint", test |-> test_idx, run |-> run + 1, fpu |-> v] >>
                /\ UNCHANGED <<pc, panic_msg>>
          ELSE /\ Panic("Bro...")
               /\ console' = Append(console, Line("run", <<run + 1>>))
               /\ UNCHANGED <<results, first_run_results, fingerprints, calls>>
    /\ UNCHANGED <<table, test_idx, preview_i, pending, file>>
    /\ UNCHANGED fpVars

\* the machine keeps its FPU variant from one run to the next
RunTestStable == RunTest(fpu)

\* after the run loop: the header of the preview of the retained vector
WritePreviewHeader ==
    /\ pc = "run"
    /\ ~RunsLeft(run)
    /\ \E ok \in BOOLEAN :
          IF ok THEN /\ file' = Append(file, Line("preview_header", <<Len(first_run_results)>>))
                     /\ preview_i' = 0
                     /\ pc' = "preview"
                     /\ panic_msg' = panic_msg
          ELSE Panic("Failed result preview") /\ UNCHANGED <<file, preview_i>>
    /\ UNCHANGED <<table, test_idx, run, fingerprints, first_run_results, results,
                   pending, console, fpu, calls>>
    /\ UNCHANGED fpVars

\* one iteration of "for i in 0..min(10, first_run_results.len())"
WritePreviewLine ==
    /\ pc = "preview"
    /\ preview_i < PreviewLen
    /\ \E ok \in BOOLEAN :
          IF ok THEN /\ file' = Append(file, Line("preview",
                                    <<preview_i, first_run_results[preview_i + 1]>>))
                     /\ preview_i' = preview_i + 1
                     /\ UNCHANGED <<pc, panic_msg>>
          ELSE Panic("unwrap") /\ UNCHANGED <<file, preview_i>>
    /\ UNCHANGED <<table, test_idx, run, fingerprints, first_run_results, results,
                   pending, console, fpu, calls>>
    /\ UNCHANGED fpVars

\* after the preview loop: the header of the consistency check; the report
\* loop then iterates the map
WriteCheckHeader ==
    /\ pc = "preview"
    /\ preview_i >= PreviewLen
    /\ \E ok \in BOOLEAN :
          IF ok THEN /\ file' = Append(file, Line("check_header", <<CONSISTENCY_RUNS>>))
                     /\ pending' = DOMAIN fingerprints
                     /\ pc' = IF DOMAIN fingerprints = {} THEN "tests" ELSE "report"
                     /\ panic_msg' = panic_msg
          ELSE Panic("no") /\ UNCHANGED <<file, pending>>
    /\ UNCHANGED <<table, test_idx, run, fingerprints, first_run_results, results,
                   preview_i, console, fpu, calls>>
    /\ UNCHANGED fpVars

\* one iteration of "for (fingerprint, count) in fingerprints.iter()": the
\* HashMap yields its keys in an order of its own
ReportEntry ==
    /\ pc = "report"
    /\ \E fp \in pending :
          LET count == fingerprints[fp]
              entry == Line("entry", <<fp, count, CONSISTENCY_RUNS,
                                       FormatPercent(count), ConsistencyStatus(count)>>)
          IN  \E ok \in BOOLEAN :
                 IF ok THEN /\ file' = Append(file, entry)
                            /\ console' = Append(console, Line("consistency",
                                   <<count, CONSISTENCY_RUNS, FormatPercent(count),
                                     ConsistencyStatus(count)>>))
                            /\ pending' = pending \ {fp}
                            /\ pc' = IF pending \ {fp} = {} THEN "tests" ELSE "report"
                            /\ panic_msg' = panic_msg
                 ELSE Panic("unwrap") /\ UNCHANGED <<file, console, pending>>
    /\ UNCHANGED <<table, test_idx, run, fingerprints, first_run_results, results,
                   preview_i, fpu, calls>>
    /\ UNCHANGED fpVars

\* the outer loop is over: the closing lines are printed and main() returns
Complete ==
    /\ pc = "tests"
    /\ test_idx >= Len(table)
    /\ console' = Append(console, Line("completed", <<>>))
    /\ pc' = "exit"
    /\ UNCHANGED <<panic_msg, table, test_idx, run, fingerprints, first_run_results,
                   results, preview_i, pending, file, fpu, calls>>
    /\ UNCHANGED fpVars

Next ==
    \/ CreateFile
    \/ WriteSysInfo
    \/ BeginTest
    \/ RunTestStable
    \/ WritePreviewHeader
    \/ WritePreviewLine
    \/ WriteCheckHeader
    \/ ReportEntry
    \/ Complete

\* main() on a machine that keeps its FPU variant
Spec == Init /\ [][Next]_vars

(***************************************************************************)
(* main() where the FPU variant may change from one generator call to the  *)
(* next: the precision of the libm calls is not pinned from one invocation *)
(* to the next, and telling such runs apart is what the verifier is for.   *)
(***************************************************************************)
RunTestUnstable == \E v \in Variants : RunTest(v)

NextUnstable ==
    \/ CreateFile
    \/ WriteSysInfo
    \/ BeginTest
    \/ RunTestUnstable
    \/ WritePreviewHeader
    \/ WritePreviewLine
    \/ WriteCheckHeader
    \/ ReportEntry
    \/ Complete

SpecUnstable == Init /\ [][NextUnstable]_vars

(***************************************************************************)
(* main() over a test table given as an input, which may hold a name that  *)
(* no arm of the match knows: the table of the code is one of the tables.  *)
(***************************************************************************)
UnknownName == "Unregistered Test"

TableNames == {test_names[n] : n \in 1..Len(test_names)} \cup {UnknownName}

Tables == [1..Len(test_names) -> TableNames]

InitTable == (\E tbl \in Tables : InitMain(tbl)) /\ FpIdle

SpecTable == InitTable /\ [][Next]_vars

(***************************************************************************)
(* calculate_fingerprint_full_precision as a function: it is called on two *)
(* vectors of at most MaxLen bit patterns, one after the other.            *)
(***************************************************************************)
MaxLen == 2

PosZero == <<0, 0, 0, 0>>

NegZero == <<32768, 0, 0, 0>>

\* 0x6b24bc3535189030 (about 1.33e208) and 0x284ecd70e09effff (about 1.56e-114)
BitsA == <<27428, 48181, 13592, 36912>>

BitsB == <<10318, 52592, 57502, 65535>>

BitPatterns == {PosZero, NegZero, BitsA, BitsB}

Vectors == UNION {[1..n -> BitPatterns] : n \in 0..MaxLen}

MainIdle ==
    /\ pc = "idle"
    /\ panic_msg = ""
    /\ table = test_names
    /\ test_idx = 0
    /\ run = 0
    /\ fingerprints = EmptyMap
    /\ first_run_results = <<>>
    /\ results = <<>>
    /\ preview_i = 0
    /\ pending = {}
    /\ file = <<>>
    /\ console = <<>>
    /\ fpu = 1
    /\ calls = <<>>

InitFP ==
    /\ MainIdle
    /\ vec1 \in Vectors
    /\ vec2 \in Vectors
    /\ digest1 = ""
    /\ digest2 = ""
    /\ fp_pc = "first"

FingerprintFirst ==
    /\ fp_pc = "first"
    /\ digest1' = calculate_fingerprint_full_precision(vec1)
    /\ fp_pc' = "second"
    /\ UNCHANGED <<vec1, vec2, digest2>>
    /\ UNCHANGED mainVars

FingerprintSecond ==
    /\ fp_pc = "second"
    /\ digest2' = calculate_fingerprint_full_precision(vec2)
    /\ fp_pc' = "done"
    /\ UNCHANGED <<vec1, vec2, digest1>>
    /\ UNCHANGED mainVars

NextFP == FingerprintFirst \/ FingerprintSecond

SpecFP == InitFP /\ [][NextFP]_vars

(***************************************************************************)
(* Vocabulary of the properties                                            *)
(***************************************************************************)
RECURSIVE SumCounts(_)
SumCounts(map) ==
    IF DOMAIN map = {} THEN 0
    ELSE LET key == CHOOSE k \in DOMAIN map : TRUE
         IN map[key] + SumCounts([k \in DOMAIN map \ {key} |-> map[k]])

\* the run loop of the current test is over and its map is still the current one
TallyDone ==
    \/ pc = "run" /\ run = CONSISTENCY_RUNS
    \/ pc \in {"preview", "report"}
    \/ pc \in {"tests", "exit"} /\ test_idx >= 1

\* the consistency entries written to the file for test number t
EntriesOf(t) ==
    {file[n].data : n \in {m \in 1..Len(file) : file[m].kind = "entry" /\ file[m].test = t}}

\* the consistency lines printed for test number t
PrintedOf(t) ==
    {console[n].data :
        n \in {m \in 1..Len(console) : console[m].kind = "consistency" /\ console[m].test = t}}

\* the FPU variant under which run number r of test number t called the generator
VariantOf(t, r) ==
    LET n == CHOOSE m \in 1..Len(calls) :
                 calls[m].op = "generate" /\ calls[m].test = t /\ calls[m].run = r
    IN calls[n].fpu

Generated(t, r) ==
    \E m \in 1..Len(calls) : calls[m].op = "generate" /\ calls[m].test = t /\ calls[m].run = r

(***************************************************************************)
(* C1: while a test is tallied the counts of its fingerprint map sum to    *)
(* the number of runs completed so far, every count is at least 1, the map *)
(* is empty before the first run, and once the run loop is over the counts *)
(* sum to exactly CONSISTENCY_RUNS.                                        *)
(***************************************************************************)
C1_CountsSumToRuns ==
    /\ pc # "panicked" => SumCounts(fingerprints) = run
    /\ \A k \in DOMAIN fingerprints : fingerprints[k] >= 1
    /\ (pc = "run" /\ run = 0) => fingerprints = EmptyMap
    /\ (pc # "panicked" /\ TallyDone) => SumCounts(fingerprints) = CONSISTENCY_RUNS

C1_Witness ==
    /\ pc = "report"
    /\ test_idx = 2
    /\ Cardinality(DOMAIN fingerprints) = 2
    /\ run = CONSISTENCY_RUNS

(***************************************************************************)
(* C2: every consistency entry of the current test, in the file and on the *)
(* console, is labelled CONSISTENT exactly when the fingerprint map has a  *)
(* single key and that key's count is CONSISTENCY_RUNS; with two or more   *)
(* keys every entry is labelled INCONSISTENT.                              *)
(***************************************************************************)
C2_ConsistentIffSingleFullKey ==
    /\ \A e \in EntriesOf(test_idx) :
          /\ e[1] \in DOMAIN fingerprints
          /\ e[2] = fingerprints[e[1]]
          /\ e[5] \in {"CONSISTENT", "INCONSISTENT"}
          /\ e[5] = "CONSISTENT" <=>
                (Cardinality(DOMAIN fingerprints) = 1 /\ e[2] = CONSISTENCY_RUNS)
          /\ Cardinality(DOMAIN fingerprints) >= 2 => e[5] = "INCONSISTENT"
    /\ \A c \in PrintedOf(test_idx) :
          /\ c[4] = "CONSISTENT" <=>
                (Cardinality(DOMAIN fingerprints) = 1 /\ c[1] = CONSISTENCY_RUNS)
          /\ Cardinality(DOMAIN fingerprints) >= 2 => c[4] = "INCONSISTENT"

C2_Witness ==
    /\ test_idx = 2
    /\ pc = "tests"
    /\ \E e \in EntriesOf(1) : e[5] = "CONSISTENT"
    /\ Cardinality(EntriesOf(2)) = 2
    /\ \A e \in EntriesOf(2) : e[5] = "INCONSISTENT"

(***************************************************************************)
(* C8: every consistency entry shows its count over CONSISTENCY_RUNS as a  *)
(* percentage with one decimal, 33.3 for one run of three, 66.7 for two    *)
(* and 100.0 for three, on the console as in the file, and a map with more *)
(* than one key has no CONSISTENT entry.                                   *)
(***************************************************************************)
ExpectedPercent(count) ==
    CASE count = 1 -> "33.3"
      [] count = 2 -> "66.7"
      [] count = 3 -> "100.0"
      [] OTHER -> "?"

C8_PercentOneDecimal ==
    /\ \A t \in 1..Len(table) : \A e \in EntriesOf(t) :
          /\ e[3] = CONSISTENCY_RUNS
          /\ e[2] \in 1..CONSISTENCY_RUNS
          /\ e[4] = ExpectedPercent(e[2])
    /\ \A t \in 1..Len(table) : \A c \in PrintedOf(t) :
          /\ c[2] = CONSISTENCY_RUNS
          /\ c[3] = ExpectedPercent(c[1])
    /\ Cardinality(EntriesOf(test_idx)) >= 2 =>
          \A e \in EntriesOf(test_idx) : e[5] = "INCONSISTENT"

\* runs 1 and 3 gave X and run 2 gave Y, and both entries have been written
C8_Witness ==
    /\ pc = "tests"
    /\ test_idx = 1
    /\ VariantOf(1, 1) = VariantOf(1, 3)
    /\ VariantOf(1, 1) # VariantOf(1, 2)
    /\ \E e \in EntriesOf(1) : e[2] = 2 /\ e[4] = "66.7" /\ e[5] = "INCONSISTENT"
    /\ \E e \in EntriesOf(1) : e[2] = 1 /\ e[4] = "33.3" /\ e[5] = "INCONSISTENT"

(***************************************************************************)
(* C10: from the end of run 1 of a test until the next test begins, the    *)
(* retained first_run_results is the vector that run 1 of that same test   *)
(* generated, whatever the later runs returned, and the preview lines of   *)
(* the test show elements of that vector.                                  *)
(***************************************************************************)
C10_FirstRunRetained ==
    /\ (pc \in {"run", "preview", "report"} /\ Generated(test_idx, 1)) =>
          first_run_results = Dispatch(table[test_idx], VariantOf(test_idx, 1)).results
    /\ (pc \in {"run", "preview", "report"} /\ ~Generated(test_idx, 1)) =>
          first_run_results = <<>>
    /\ \A n \in 1..Len(file) :
          (file[n].kind = "preview" /\ file[n].test = test_idx /\ pc # "panicked") =>
              file[n].data[2] = first_run_results[file[n].data[1] + 1]

C10_Witness ==
    /\ pc = "preview"
    /\ test_idx = 2
    /\ preview_i = 10
    /\ VariantOf(2, 1) # VariantOf(2, 3)
    /\ results # first_run_results
    /\ VariantOf(1, 1) # VariantOf(2, 1)

(***************************************************************************)
(* C3: on a machine whose generators are deterministic every run of a test *)
(* returns the vector of run 1, so once the run loop is over the map is    *)
(* {X: CONSISTENCY_RUNS} for a single fingerprint X, and the only entry    *)
(* reported for the test is CONSISTENT at 100.0%.                          *)
(***************************************************************************)
C3_DeterministicIsConsistent ==
    /\ (pc = "run" /\ run >= 1) =>
          /\ results = first_run_results
          /\ DOMAIN fingerprints = {calculate_fingerprint_full_precision(first_run_results)}
          /\ \A k \in DOMAIN fingerprints : fingerprints[k] = run
    /\ (pc # "panicked" /\ TallyDone) =>
          /\ Cardinality(DOMAIN fingerprints) = 1
          /\ \A k \in DOMAIN fingerprints : fingerprints[k] = CONSISTENCY_RUNS
    /\ \A t \in 1..Len(table) : \A e \in EntriesOf(t) :
          /\ e[2] = CONSISTENCY_RUNS
          /\ e[4] = "100.0"
          /\ e[5] = "CONSISTENT"
    /\ \A t \in 1..Len(table) : Cardinality(EntriesOf(t)) <= 1

C3_Witness ==
    /\ pc = "exit"
    /\ \A t \in 1..Len(table) :
          \E e \in EntriesOf(t) :
             e[2] = CONSISTENCY_RUNS /\ e[4] = "100.0" /\ e[5] = "CONSISTENT"

(***************************************************************************)
(* C4: the vector returned by the latest generator call has 1230 elements  *)
(* (SAMPLE_SIZE, six seeds of 205 samples) for the denormal test and 4653  *)
(* elements (517 inputs of 9 values) for the transcendental test.          *)
(***************************************************************************)
C4_VectorLengths ==
    calls # <<>> =>
       LET name == table[calls[Len(calls)].test]
       IN /\ name = test_names[1] =>
                Len(results) = 1230 /\ Len(results) = SAMPLE_SIZE
          /\ name = test_names[2] =>
                Len(results) = 4653 /\ Len(results) = 9 * Len(test_values)
          /\ Len(test_values) = 517

C4_Witness ==
    /\ pc = "exit"
    /\ Len(results) = 4653
    /\ \E m \in 1..Len(calls) : calls[m].test = 1 /\ calls[m].op = "generate"
    /\ Len(first_run_results) = 4653

(***************************************************************************)
(* C6, as the specification states it: when creating the report file or a  *)
(* write to it fails, every test still executes all its CONSISTENCY_RUNS   *)
(* runs.  The code stops at the failed call instead.                       *)
(***************************************************************************)
IoFailures ==
    {"Could not create output file", "Bruh nah", "Not happening",
     "Failed result preview", "unwrap", "no"}

C6_CoreSurvivesIoFailure ==
    (pc = "panicked" /\ panic_msg \in IoFailures) =>
        \A t \in 1..Len(table) : \A r \in 1..CONSISTENCY_RUNS : Generated(t, r)

(***************************************************************************)
(* C9: the generator and the fingerprint function are called once each,    *)
(* in that order, for run 1, 2, ..., CONSISTENCY_RUNS of the first test    *)
(* and then of the second, with no run skipped, repeated or interleaved,   *)
(* and the run index stays within 0..CONSISTENCY_RUNS.                     *)
(***************************************************************************)
C9_RunsInOrder ==
    /\ run \in 0..CONSISTENCY_RUNS
    /\ test_idx \in 0..Len(table)
    /\ \A n \in 1..Len(calls) :
          /\ calls[n].op = (IF n % 2 = 1 THEN "generate" ELSE "fingerprint")
          /\ calls[n].test = ((n - 1) \div (2 * CONSISTENCY_RUNS)) + 1
          /\ calls[n].run = (((n - 1) % (2 * CONSISTENCY_RUNS)) \div 2) + 1
    /\ (pc # "panicked" /\ test_idx >= 1) =>
          Len(calls) = 2 * ((test_idx - 1) * CONSISTENCY_RUNS + run)
    /\ test_idx = 0 => calls = <<>>
    /\ pc \in {"preview", "report", "exit"} => run = CONSISTENCY_RUNS

C9_Witness ==
    /\ pc = "exit"
    /\ Len(calls) = 2 * CONSISTENCY_RUNS * Len(table)
    /\ calls[Len(calls)].run = CONSISTENCY_RUNS
    /\ calls[Len(calls)].test = Len(table)

(***************************************************************************)
(* C7: when the generator call of a run fails (the test name is unknown to *)
(* the dispatch) the process has stopped: the failed run and the runs      *)
(* after it called nothing, no later test was started, and no consistency  *)
(* entry of the failing test was written or printed.                       *)
(***************************************************************************)
RunAnnounced(t) ==
    \E n \in 1..Len(console) : console[n].kind = "run" /\ console[n].test = t

C7_FailedRunAborts ==
    (test_idx >= 1 /\ table[test_idx] = UnknownName /\ RunAnnounced(test_idx)) =>
        /\ pc = "panicked"
        /\ panic_msg = "Bro..."
        /\ \A n \in 1..Len(calls) : calls[n].test < test_idx
        /\ EntriesOf(test_idx) = {}
        /\ PrintedOf(test_idx) = {}
        /\ \A n \in 1..Len(file) : file[n].test <= test_idx
        /\ \A n \in 1..Len(console) : console[n].test <= test_idx
        /\ console[Len(console)] = [kind |-> "run", test |-> test_idx, data |-> <<run>>]
        /\ ~ENABLED Next

C7_Witness ==
    /\ pc = "panicked"
    /\ panic_msg = "Bro..."
    /\ test_idx = 2
    /\ table[1] # UnknownName
    /\ Cardinality(EntriesOf(1)) = 1
    /\ Len(calls) = 2 * CONSISTENCY_RUNS

(***************************************************************************)
(* C5, as the specification states it: two vectors receive the same        *)
(* fingerprint exactly when they have the same length and the same bit     *)
(* patterns.  The digest has 64 bits, so the "only if" half fails.         *)
(***************************************************************************)
C5_SameFingerprintIffSameBits ==
    fp_pc = "done" => ((digest1 = digest2) <=> (vec1 = vec2))

(***************************************************************************)
(* C5, amended: the fingerprint is a function of the sequence of bit       *)
(* patterns alone (equal vectors give equal fingerprints of 16 hex         *)
(* digits), the empty vector, [+0.0] and [-0.0] have three distinct fixed  *)
(* digests, and two different vectors may share a fingerprint: among the   *)
(* vectors drawn here the only such pair is [0x6b24bc3535189030] and       *)
(* [0x284ecd70e09effff], both of fingerprint 0c4fac336ab9e1e3.             *)
(***************************************************************************)
ZeroDigest(vec) ==
    CASE vec = <<>> -> "d1fba762150c532c"
      [] vec = <<PosZero>> -> "bd60acb658c79e45"
      [] vec = <<NegZero>> -> "ef0826fa9ec09086"
      [] OTHER -> ""

C5_FingerprintOfBitsWithCollisions ==
    /\ fp_pc \in {"second", "done"} =>
          /\ Len(digest1) = 16
          /\ ZeroDigest(vec1) # "" => digest1 = ZeroDigest(vec1)
    /\ fp_pc = "done" =>
          /\ vec1 = vec2 => digest1 = digest2
          /\ ZeroDigest(vec2) # "" => digest2 = ZeroDigest(vec2)
          /\ (ZeroDigest(vec1) # "" /\ ZeroDigest(vec2) # "" /\ vec1 # vec2) =>
                digest1 # digest2
          /\ {vec1, vec2} = {<<BitsA>>, <<BitsB>>} => digest1 = digest2
          /\ (digest1 = digest2 /\ vec1 # vec2) =>
                {vec1, vec2} = {<<BitsA>>, <<BitsB>>}

C5_Witness ==
    /\ fp_pc = "done"
    /\ vec1 = <<PosZero>>
    /\ vec2 = <<NegZero>>
    /\ digest1 # digest2

\* the collision itself: two different vectors with one fingerprint
C5_CollisionWitness ==
    /\ fp_pc = "done"
    /\ vec1 = <<BitsA>>
    /\ vec2 = <<BitsB>>
    /\ digest1 = "0c4fac336ab9e1e3"
    /\ digest2 = "0c4fac336ab9e1e3"

====
